---------------------------- MODULE Spec2Model ----------------------------
(***************************************************************************)
(* Model of src/jal.py: the text sanitizer, the two itinerary parsers, the *)
(* dispatcher and the calendar serializer.                                 *)
(*                                                                         *)
(* A Python str is a sequence of Unicode code points (naturals).  Python's *)
(* 0-based indices are kept for the parsers' cursors i and j; the line at  *)
(* Python index k is lines[k + 1].  None is the one-element sequence       *)
(* <<NoneTag>>, which is no string since NoneTag is no code point.         *)
(***************************************************************************)
EXTENDS Integers, Sequences, FiniteSets, TLC

VARIABLES
    raw,      \* the text handed to parse_flights
    text,     \* raw after sanitize_user_text
    pc,       \* position in parse_flights / flights_to_ics
    lines,    \* the parser's list of stripped non-blank lines
    i,        \* the running parser's outer cursor
    j,        \* the homepage parser's inner cursor
    scan,     \* the homepage parser's locals for the block opened at i
    flights,  \* the running parser's result list
    doc,      \* the outcome of flights_to_ics
    value,    \* the argument of a call of is_valid_time
    accepted  \* the outcome of that call

vars == <<raw, text, pc, lines, i, j, scan, flights, doc, value, accepted>>

---------------------------------------------------------------------------
(* Program constants.                                                      *)

MAX_INPUT_CHARS == 20000
MAX_LINES == 2000
MAX_FIELD_LEN == 200
LOOKAHEAD == 15

---------------------------------------------------------------------------
(* Code points the source names.                                           *)

Ch == [ tab |-> 9, nl |-> 10, cr |-> 13, space |-> 32, lparen |-> 40,
        rparen |-> 41, comma |-> 44, minus |-> 45, gt |-> 62, zero |-> 48,
        colon |-> 58, semicolon |-> 59, backslash |-> 92, underscore |-> 95,
        n |-> 110, ideographicSpace |-> 12288,
        fwColon |-> 65306, fwLparen |-> 65288, fwRparen |-> 65289 ]

NoneTag == 0 - 1
None == <<NoneTag>>

\* Python truthiness of an optional string: None and "" are false.
Truthy(v) == v # None /\ v # <<>>

\* CONTROL_CHAR_RE: [\x00-\x08\x0B\x0C\x0E-\x1F\x7F]
ControlChars == (0..8) \cup {11, 12} \cup (14..31) \cup {127}

\* str.strip() and the regex class \s: Unicode white space.
SpaceChars ==
    {9, 10, 11, 12, 13, 28, 29, 30, 31, 32, 133, 160, 5760}
        \cup (8192..8202) \cup {8232, 8233, 8239, 8287, 12288}

\* The regex class \d, on the ASCII digits (the inputs use no other digit).
DigitChars == 48..57

UpperAscii == 65..90
LowerAscii == 97..122
AsciiLetters == UpperAscii \cup LowerAscii

\* The regex class \w on the scripts the inputs use: ASCII letters, digits,
\* underscore, kana and CJK ideographs.
WordChars ==
    AsciiLetters \cup DigitChars \cup {Ch.underscore}
        \cup (12353..12543) \cup (19968..40959)

\* ch.upper() on the characters guess_airport_code keeps.
Upper(c) == IF c \in LowerAscii THEN c - 32 ELSE c

---------------------------------------------------------------------------
(* Strings.                                                                *)

\* The code point at 1-based position p, or NoneTag outside the string.
At(s, p) == IF p \in 1..Len(s) THEN s[p] ELSE NoneTag

\* s[a:] and s[:b] of Python, a and b >= 0.
SliceFrom(s, a) == SubSeq(s, a + 1, Len(s))
SliceTo(s, b) == SubSeq(s, 1, IF b < Len(s) THEN b ELSE Len(s))

\* The 1-based positions of s whose code point is in (is not in) the set S.
PositionsIn(s, S) == SelectSeq([k \in 1..Len(s) |-> k], LAMBDA k : s[k] \in S)
PositionsNotIn(s, S) == SelectSeq([k \in 1..Len(s) |-> k], LAMBDA k : s[k] \notin S)

\* str.strip()
Strip(s) ==
    LET keep == PositionsNotIn(s, SpaceChars)
    IN  IF keep = <<>> THEN <<>> ELSE SubSeq(s, keep[1], keep[Len(keep)])

\* str.replace for a one-character pattern.
Replace(s, c, by) ==
    LET at == PositionsIn(s, {c})
        out(k) == IF k = Len(at) + 1
                  THEN SubSeq(s, (IF k = 1 THEN 1 ELSE at[k - 1] + 1), Len(s))
                  ELSE SubSeq(s, (IF k = 1 THEN 1 ELSE at[k - 1] + 1), at[k] - 1) \o by
        RECURSIVE Cat(_, _)
        Cat(a, b) == IF a > b THEN <<>>
                     ELSE IF a = b THEN out(a)
                     ELSE Cat(a, (a + b) \div 2) \o Cat((a + b) \div 2 + 1, b)
    IN  Cat(1, Len(at) + 1)

\* str.split(sep) for a one-character separator.
Split(s, sep) ==
    LET at == PositionsIn(s, {sep})
    IN  [k \in 1..(Len(at) + 1) |->
            SubSeq(s, (IF k = 1 THEN 1 ELSE at[k - 1] + 1),
                      (IF k = Len(at) + 1 THEN Len(s) ELSE at[k] - 1))]

\* sep.join(parts)
RECURSIVE JoinRange(_, _, _, _)
JoinRange(parts, sep, a, b) ==
    IF a > b THEN <<>>
    ELSE IF a = b THEN parts[a]
    ELSE JoinRange(parts, sep, a, (a + b) \div 2) \o sep
             \o JoinRange(parts, sep, (a + b) \div 2 + 1, b)

Join(parts, sep) == JoinRange(parts, sep, 1, Len(parts))

\* Whether lit occurs in s at 1-based position p.
LitAt(s, p, lit) ==
    /\ p >= 1
    /\ p + Len(lit) - 1 <= Len(s)
    /\ \A k \in 1..Len(lit) : s[p + k - 1] = lit[k]

\* The Python test "lit in s".
Contains(s, lit) == \E p \in 1..(Len(s) + 1) : LitAt(s, p, lit)

\* str.startswith
StartsWith(s, lit) == LitAt(s, 1, lit)

\* The length of the run of characters of the set S from position p.
RunLen(s, p, S) ==
    IF p \notin 1..Len(s) \/ At(s, p) \notin S THEN 0
    ELSE LET stops == SelectSeq([k \in 1..(Len(s) - p + 1) |-> p + k - 1],
                                LAMBDA q : s[q] \notin S)
         IN  IF stops = <<>> THEN Len(s) - p + 1 ELSE stops[1] - p

\* The value of a string of ASCII digits.
RECURSIVE DigitsToInt(_)
DigitsToInt(s) ==
    IF s = <<>> THEN 0
    ELSE 10 * DigitsToInt(SubSeq(s, 1, Len(s) - 1)) + (s[Len(s)] - Ch.zero)

\* str(n) for n >= 0.
RECURSIVE IntToDigits(_)
IntToDigits(n) ==
    IF n < 10 THEN <<Ch.zero + n>>
    ELSE IntToDigits(n \div 10) \o <<Ch.zero + (n % 10)>>

\* int(s): white space around the digits is ignored; anything else that is
\* not a digit string raises ValueError.
PyInt(s) ==
    LET t == Strip(s)
    IN  IF t # <<>> /\ \A k \in 1..Len(t) : t[k] \in DigitChars
        THEN [ok |-> TRUE, val |-> DigitsToInt(t)]
        ELSE [ok |-> FALSE, val |-> 0]

---------------------------------------------------------------------------
(* Text sanitizer.                                                         *)

StripControl(s) == SelectSeq(s, LAMBDA c : c \notin ControlChars)

normalize(t) ==
    Strip(SelectSeq([k \in 1..Len(t) |->
                        IF t[k] = Ch.ideographicSpace THEN Ch.space ELSE t[k]],
                    LAMBDA c : c # Ch.cr))

sanitize_user_text(t) ==
    IF t = <<>> THEN <<>>
    ELSE LET stripped == StripControl(t)
             capped == IF Len(stripped) > MAX_INPUT_CHARS
                       THEN SliceTo(stripped, MAX_INPUT_CHARS) ELSE stripped
             ls == Split(capped, Ch.nl)
             kept == IF Len(ls) > MAX_LINES THEN SubSeq(ls, 1, MAX_LINES) ELSE ls
         IN  Join(kept, <<Ch.nl>>)

trim_field(v) ==
    LET s == Strip(StripControl(v))
    IN  IF Len(s) > MAX_FIELD_LEN THEN SliceTo(s, MAX_FIELD_LEN) ELSE s

\* The parsers' line list: [l.strip() for l in text.split("\n") if l.strip()]
ScanLines(t) ==
    LET ls == Split(normalize(t), Ch.nl)
    IN  SelectSeq([k \in 1..Len(ls) |-> Strip(ls[k])], LAMBDA l : l # <<>>)

---------------------------------------------------------------------------
(* Literals of the source, as code points.                                 *)

Lit == [ JAL |-> <<74, 65, 76>>,
         nen |-> <<24180>>, gatsu |-> <<26376>>, nichi |-> <<26085>>,
         bin |-> <<20415>>, hatsu |-> <<30330>>, chaku |-> <<30528>>,
         zaseki |-> <<24231, 24109>>,
         kurasu |-> <<12463, 12521, 12473>>,
         zasekiBango |-> <<24231, 24109, 30058, 21495>>,
         binmei |-> <<20415, 21517>>,
         arrow |-> <<45, 62>>, spacedArrow |-> <<32, 45, 62, 32>>,
         flight |-> <<70, 108, 105, 103, 104, 116, 58, 32, 74, 65, 76>>,
         from |-> <<70, 114, 111, 109, 58, 32>>,
         to |-> <<84, 111, 58, 32>>,
         seat |-> <<83, 101, 97, 116, 58, 32>>,
         open |-> <<32, 40>>, close |-> <<41, 32>> ]

---------------------------------------------------------------------------
(* Time of day.                                                            *)

\* The length of the match of \d{1,2}:\d{2} at position p, 0 when none.
TimeTokenLen(s, p) ==
    IF /\ At(s, p) \in DigitChars /\ At(s, p + 1) \in DigitChars
       /\ At(s, p + 2) = Ch.colon
       /\ At(s, p + 3) \in DigitChars /\ At(s, p + 4) \in DigitChars
    THEN 5
    ELSE IF /\ At(s, p) \in DigitChars /\ At(s, p + 1) = Ch.colon
            /\ At(s, p + 2) \in DigitChars /\ At(s, p + 3) \in DigitChars
    THEN 4
    ELSE 0

\* The regex anchor $ at position q: the end, or just before a final newline.
DollarAt(s, q) == q = Len(s) + 1 \/ (q = Len(s) /\ s[q] = Ch.nl)

is_valid_time(v) ==
    LET s == IF Truthy(v) THEN v ELSE <<>>
        n == TimeTokenLen(s, 1)
    IN  /\ n > 0
        /\ DollarAt(s, n + 1)
        /\ LET hm == Split(s, Ch.colon)
               h == PyInt(hm[1]).val
               m == PyInt(hm[2]).val
           IN  0 <= h /\ h <= 23 /\ 0 <= m /\ m <= 59

---------------------------------------------------------------------------
(* Flight and its instants.                                                *)

Flight(year, month, day, flight_no, dep_name, dep_time, arr_name, arr_time, seat_class, seat_no) ==
    [year |-> year, month |-> month, day |-> day, flight_no |-> flight_no,
     dep_name |-> dep_name, dep_time |-> dep_time,
     arr_name |-> arr_name, arr_time |-> arr_time,
     seat_class |-> seat_class, seat_no |-> seat_no]

Raised(exc) == [kind |-> exc]

IsLeap(y) == (y % 4 = 0 /\ y % 100 # 0) \/ y % 400 = 0

DaysInMonth(y, m) ==
    IF m = 2 THEN (IF IsLeap(y) THEN 29 ELSE 28)
    ELSE IF m \in {4, 6, 9, 11} THEN 30 ELSE 31

\* datetime(year, month, day, hour, minute): ValueError outside the calendar.
datetime(y, mo, d, h, mi) ==
    IF /\ 1 <= y /\ y <= 9999
       /\ 1 <= mo /\ mo <= 12
       /\ 1 <= d /\ d <= DaysInMonth(y, mo)
       /\ 0 <= h /\ h <= 23
       /\ 0 <= mi /\ mi <= 59
    THEN [kind |-> "datetime", year |-> y, month |-> mo, day |-> d,
          hour |-> h, minute |-> mi]
    ELSE Raised("ValueError")

\* datetime(year, month, day, int(t[:2]), int(t[3:]))
ClockOn(f, t) ==
    LET h == PyInt(SliceTo(t, 2))
        m == PyInt(SliceFrom(t, 3))
    IN  IF h.ok /\ m.ok THEN datetime(f.year, f.month, f.day, h.val, m.val)
        ELSE Raised("ValueError")

\* a < b on two datetimes of one timezone.
Before(a, b) ==
    \/ a.year < b.year
    \/ a.year = b.year /\ a.month < b.month
    \/ a.year = b.year /\ a.month = b.month /\ a.day < b.day
    \/ a.year = b.year /\ a.month = b.month /\ a.day = b.day
          /\ a.hour < b.hour
    \/ a.year = b.year /\ a.month = b.month /\ a.day = b.day
          /\ a.hour = b.hour /\ a.minute < b.minute

\* dt + timedelta(days=1): OverflowError past 9999-12-31.
PlusOneDay(dt) ==
    IF dt.day < DaysInMonth(dt.year, dt.month)
    THEN [dt EXCEPT !.day = dt.day + 1]
    ELSE IF dt.month < 12
    THEN [dt EXCEPT !.day = 1, !.month = dt.month + 1]
    ELSE IF dt.year < 9999
    THEN [dt EXCEPT !.day = 1, !.month = 1, !.year = dt.year + 1]
    ELSE Raised("OverflowError")

dep_dt(f) == ClockOn(f, f.dep_time)

\* The comparison arr < self.dep_dt of arr_dt.
ArrivesBefore(arr, dep) == Before(arr, dep)

arr_dt(f) ==
    LET arr == ClockOn(f, f.arr_time)
        dep == dep_dt(f)
    IN  IF arr.kind # "datetime" THEN arr
        ELSE IF dep.kind # "datetime" THEN dep
        ELSE IF ArrivesBefore(arr, dep) THEN PlusOneDay(arr)
        ELSE arr

---------------------------------------------------------------------------
(* Airport code resolver.                                                  *)

AIRPORT_CODE_MAP ==
    { <<<<26481, 20140, 40, 32701, 30000, 41>>, <<72, 78, 68>>>>,
      <<<<26481, 20140, 65288, 32701, 30000, 65289>>, <<72, 78, 68>>>>,
      <<<<32701, 30000>>, <<72, 78, 68>>>>,
      <<<<26413, 24140, 40, 26032, 21315, 27507, 41>>, <<67, 84, 83>>>>,
      <<<<26413, 24140, 65288, 26032, 21315, 27507, 65289>>, <<67, 84, 83>>>>,
      <<<<26032, 21315, 27507>>, <<67, 84, 83>>>>,
      <<<<22823, 38442, 40, 20234, 20025, 41>>, <<73, 84, 77>>>>,
      <<<<22823, 38442, 65288, 20234, 20025, 65289>>, <<73, 84, 77>>>>,
      <<<<20234, 20025>>, <<73, 84, 77>>>>,
      <<<<31119, 23713>>, <<70, 85, 75>>>>,
      <<<<37027, 35207>>, <<79, 75, 65>>>>,
      <<<<27798, 32260, 40, 37027, 35207, 41>>, <<79, 75, 65>>>>,
      <<<<27798, 32260, 65288, 37027, 35207, 65289>>, <<79, 75, 65>>>>,
      <<<<21517, 21476, 23627, 40, 20013, 37096, 41>>, <<78, 71, 79>>>>,
      <<<<21517, 21476, 23627, 65288, 20013, 37096, 65289>>, <<78, 71, 79>>>>,
      <<<<20013, 37096>>, <<78, 71, 79>>>> }

OpenParens == {Ch.fwLparen, Ch.lparen}
CloseParens == {Ch.rparen, Ch.fwRparen}

\* The length of the run of characters outside the set S from position p.
RunLenNotIn(s, p, S) ==
    IF p \notin 1..Len(s) \/ At(s, p) \in S THEN 0
    ELSE LET stops == SelectSeq([k \in 1..(Len(s) - p + 1) |-> p + k - 1],
                                LAMBDA q : s[q] \in S)
         IN  IF stops = <<>> THEN Len(s) - p + 1 ELSE stops[1] - p

\* The least element of a non-empty set of integers.
Least(S) == CHOOSE x \in S : \A y \in S : x <= y

\* Group 1 of re.search(r'[fw( (]([^fw( fw) ( )]+)[) fw)]', name), or None.
ParenInside(name) ==
    LET ok(p) == /\ name[p] \in OpenParens
                 /\ RunLenNotIn(name, p + 1, OpenParens \cup CloseParens) >= 1
                 /\ At(name, p + 1 + RunLenNotIn(name, p + 1,
                                       OpenParens \cup CloseParens))
                        \in CloseParens
        hits == {p \in 1..Len(name) : ok(p)}
    IN  IF hits = {} THEN None
        ELSE SubSeq(name, Least(hits) + 1,
                    Least(hits) + RunLenNotIn(name, Least(hits) + 1,
                                              OpenParens \cup CloseParens))

\* Group 1 of re.search(r'\b([A-Z]{3})\b', s), or None.
ThreeUpper(s) ==
    LET ok(p) == /\ At(s, p) \in UpperAscii /\ At(s, p + 1) \in UpperAscii
                 /\ At(s, p + 2) \in UpperAscii
                 /\ At(s, p - 1) \notin WordChars
                 /\ At(s, p + 3) \notin WordChars
        hits == {p \in 1..Len(s) : ok(p)}
    IN  IF hits = {} THEN None ELSE SubSeq(s, Least(hits), Least(hits) + 2)

guess_airport_code(name) ==
    IF \E e \in AIRPORT_CODE_MAP : e[1] = name
    THEN (CHOOSE e \in AIRPORT_CODE_MAP : e[1] = name)[2]
    ELSE LET inside == ParenInside(name)
             m == IF inside = None THEN None ELSE ThreeUpper(inside)
             m2 == ThreeUpper(name)
             letters == SelectSeq(name, LAMBDA c : c \in AsciiLetters)
         IN  IF m # None THEN m
             ELSE IF m2 # None THEN m2
             ELSE IF Len(letters) >= 3
             THEN [k \in 1..3 |-> Upper(letters[k])]
             ELSE name

dep_code(f) == guess_airport_code(f.dep_name)
arr_code(f) == guess_airport_code(f.arr_name)

---------------------------------------------------------------------------
(* Calendar serializer.                                                    *)

escape_ics_text(v) ==
    Replace(Replace(Replace(Replace(trim_field(v),
        Ch.backslash, <<Ch.backslash, Ch.backslash>>),
        Ch.nl, <<Ch.backslash, Ch.n>>),
        Ch.semicolon, <<Ch.backslash, Ch.semicolon>>),
        Ch.comma, <<Ch.backslash, Ch.comma>>)

\* "%02d"
Pad2(n) == IF n < 10 THEN <<Ch.zero>> \o IntToDigits(n) ELSE IntToDigits(n)

\* dt.strftime("%Y%m%dT%H%M%S"); %Y is not zero-padded by the C library.
fmt(dt) ==
    IntToDigits(dt.year) \o Pad2(dt.month) \o Pad2(dt.day) \o <<84>>
        \o Pad2(dt.hour) \o Pad2(dt.minute) \o Pad2(0)

short(s) == IF Len(s) <= 8 THEN s ELSE SliceTo(s, 8)

\* x or ''
OrEmpty(v) == IF Truthy(v) THEN v ELSE <<>>

\* The texts to_ics hands to escape_ics_text.
SummaryText(f) ==
    Lit.JAL \o f.flight_no \o <<Ch.space>> \o short(dep_code(f))
        \o Lit.arrow \o short(arr_code(f))

LocationText(f) == f.dep_name \o Lit.spacedArrow \o f.arr_name

DescriptionText(f) ==
    LET base == << Lit.flight \o f.flight_no,
                   Lit.from \o f.dep_name \o Lit.open \o dep_code(f)
                       \o Lit.close \o f.dep_time,
                   Lit.to \o f.arr_name \o Lit.open \o arr_code(f)
                       \o Lit.close \o f.arr_time >>
        seat == Strip(Lit.seat \o OrEmpty(f.seat_class) \o <<Ch.space>>
                          \o OrEmpty(f.seat_no))
        desc_parts == IF Truthy(f.seat_class) \/ Truthy(f.seat_no)
                      THEN Append(base, seat) ELSE base
    IN  Join(desc_parts, <<Ch.backslash, Ch.n>>)

\* One VEVENT block, by its fields (UID and DTSTAMP are fresh values that no
\* field of the record determines), or the exception raised.
to_ics(f) ==
    LET dep == dep_dt(f)
        arr == arr_dt(f)
    IN  IF dep.kind # "datetime" THEN dep
        ELSE IF arr.kind # "datetime" THEN arr
        ELSE [kind |-> "VEVENT",
              dtstart |-> fmt(dep),
              dtend |-> fmt(arr),
              summary |-> escape_ics_text(SummaryText(f)),
              location |-> escape_ics_text(LocationText(f)),
              description |-> escape_ics_text(DescriptionText(f))]

\* The calendar document, or the first exception an event raises.
flights_to_ics(fs) ==
    LET events == [k \in 1..Len(fs) |-> to_ics(fs[k])]
        bad == {k \in 1..Len(fs) : events[k].kind # "VEVENT"}
    IN  IF bad = {} THEN [kind |-> "VCALENDAR", events |-> events]
        ELSE Raised(events[Least(bad)].kind)

---------------------------------------------------------------------------
(* Email-format parser.                                                    *)

NoMatch == [ok |-> FALSE]

\* The match of \d{1,2} followed by the literal lit at position p: the number
\* of digits taken, 0 when none.
DigitsThen(s, p, lit) ==
    IF At(s, p) \in DigitChars /\ At(s, p + 1) \in DigitChars
          /\ LitAt(s, p + 2, lit)
    THEN 2
    ELSE IF At(s, p) \in DigitChars /\ LitAt(s, p + 1, lit) THEN 1
    ELSE 0

\* The match of (\d{4})nen(\d{1,2})gatsu(\d{1,2})nichi at position p; next is
\* the position after the match.
DateAt(s, p) ==
    LET m == DigitsThen(s, p + 5, Lit.gatsu)
        d == DigitsThen(s, p + 5 + m + 1, Lit.nichi)
    IN  IF /\ \A k \in 0..3 : At(s, p + k) \in DigitChars
           /\ LitAt(s, p + 4, Lit.nen)
           /\ m > 0
           /\ d > 0
        THEN [ok |-> TRUE,
              year |-> DigitsToInt(SubSeq(s, p, p + 3)),
              month |-> DigitsToInt(SubSeq(s, p + 5, p + 4 + m)),
              day |-> DigitsToInt(SubSeq(s, p + 6 + m, p + 5 + m + d)),
              next |-> p + 7 + m + d]
        ELSE NoMatch

\* Whether JAL(\d+)bin matches at position q.
FlightTokenAt(s, q) ==
    /\ LitAt(s, q, Lit.JAL)
    /\ RunLen(s, q + 3, DigitChars) >= 1
    /\ LitAt(s, q + 3 + RunLen(s, q + 3, DigitChars), Lit.bin)

\* re.search(r'(\d{4})nen(\d{1,2})gatsu(\d{1,2})nichi.*?JAL(\d+)bin', line)
EmailHeader(line) ==
    LET tail(p) == {q \in DateAt(line, p).next..Len(line) :
                        FlightTokenAt(line, q)}
        hits == {p \in 1..Len(line) :
                    DateAt(line, p).ok /\ tail(p) # {}}
    IN  IF hits = {} THEN NoMatch
        ELSE LET p == Least(hits)
                 q == Least(tail(p))
                 d == DateAt(line, p)
             IN  [ok |-> TRUE, year |-> d.year, month |-> d.month,
                  day |-> d.day,
                  flight_no |-> DigitsToInt(SubSeq(line, q + 3,
                                   q + 2 + RunLen(line, q + 3, DigitChars)))]

\* The length of the match of \s{2,}|\t+ at position q, 0 when none.
SeparatorLen(s, q) ==
    IF RunLen(s, q, SpaceChars) >= 2 THEN RunLen(s, q, SpaceChars)
    ELSE RunLen(s, q, {Ch.tab})

\* re.split(r'\s{2,}|\t+', s) from position p on: the parts between the
\* leftmost matches of the separator.
RECURSIVE SplitRouteFrom(_, _)
SplitRouteFrom(s, p) ==
    LET seps == SelectSeq([k \in 1..(Len(s) - p + 1) |-> p + k - 1],
                          LAMBDA q : SeparatorLen(s, q) > 0)
    IN  IF seps = <<>> THEN <<SubSeq(s, p, Len(s))>>
        ELSE <<SubSeq(s, p, seps[1] - 1)>>
                 \o SplitRouteFrom(s, seps[1] + SeparatorLen(s, seps[1]))

\* The route line's parts: the split, empty parts dropped, and the whole
\* line when fewer than two parts remain.
RouteParts(route_line) ==
    LET parts == SelectSeq(SplitRouteFrom(route_line, 1),
                           LAMBDA x : x # <<>>)
    IN  IF Len(parts) < 2 THEN <<route_line>> ELSE parts

\* re.match(r'(.+?)(\d{1,2}:\d{2})marker', s): the stripped group 1 and
\* group 2, or None for both.
LabelThenTime(s, marker) ==
    LET hits == {k \in 1..Len(s) :
                    /\ TimeTokenLen(s, k + 1) > 0
                    /\ LitAt(s, k + 1 + TimeTokenLen(s, k + 1), marker)}
    IN  IF hits = {} THEN [name |-> None, time |-> None]
        ELSE [name |-> Strip(SubSeq(s, 1, Least(hits))),
              time |-> SubSeq(s, Least(hits) + 1,
                              Least(hits) + TimeTokenLen(s, Least(hits) + 1))]

extract_location_and_time(segment) == LabelThenTime(Strip(segment), Lit.hatsu)

\* The four route fields of the block, None where not extracted.
RouteFields(route_line) ==
    LET none == [dep_name |-> None, dep_time |-> None,
                 arr_name |-> None, arr_time |-> None]
    IN  IF /\ route_line # <<>>
           /\ Contains(route_line, Lit.hatsu)
           /\ Contains(route_line, Lit.chaku)
        THEN LET parts == RouteParts(route_line)
             IN  IF Len(parts) >= 2
                 THEN LET dep == extract_location_and_time(parts[1])
                          arr == LabelThenTime(parts[2], Lit.chaku)
                      IN  [dep_name |-> dep.name, dep_time |-> dep.time,
                           arr_name |-> arr.name, arr_time |-> arr.time]
                 ELSE none
        ELSE none

\* The character class [A-Z hiragana katakana kanji A-Za-z] of the seat class.
SeatClassChars ==
    AsciiLetters \cup (12353..12435) \cup (12449..12534) \cup (19968..40864)

\* Group 1 of re.search(r'kurasu\s*([A-Z...]+)', seat_line), or None.
SeatClassIn(seat_line) ==
    LET from(p) == p + 3 + RunLen(seat_line, p + 3, SpaceChars)
        hits == {p \in 1..Len(seat_line) :
                    /\ LitAt(seat_line, p, Lit.kurasu)
                    /\ RunLen(seat_line, from(p), SeatClassChars) >= 1}
    IN  IF hits = {} THEN None
        ELSE SubSeq(seat_line, from(Least(hits)),
                    from(Least(hits)) - 1
                        + RunLen(seat_line, from(Least(hits)), SeatClassChars))

\* Group 1 of re.search(r'zasekiBango(fw:)?([0-9A-Z]{1,4})', seat_line), or
\* None.
SeatNoIn(seat_line) ==
    LET from(p) == IF At(seat_line, p + 4) = Ch.fwColon THEN p + 5 ELSE p + 4
        run(p) == RunLen(seat_line, from(p), DigitChars \cup UpperAscii)
        hits == {p \in 1..Len(seat_line) :
                    LitAt(seat_line, p, Lit.zasekiBango) /\ run(p) >= 1}
    IN  IF hits = {} THEN None
        ELSE SubSeq(seat_line, from(Least(hits)),
                    from(Least(hits)) - 1
                        + (IF run(Least(hits)) > 4 THEN 4 ELSE run(Least(hits))))

\* trim_field(x) if x else None
TrimOrNone(v) == IF Truthy(v) THEN trim_field(v) ELSE None

\* The emission test without the time-validity check.
TimesUnchecked(dep_time, arr_time) == TRUE

\* The emission test of both parsers on the two times.
TimesValid(dep_time, arr_time) ==
    is_valid_time(dep_time) /\ is_valid_time(arr_time)

\* Whether the line is a header candidate: all five markers are in it.
HasEmailMarkers(line) ==
    /\ Contains(line, Lit.JAL)
    /\ Contains(line, Lit.bin)
    /\ Contains(line, Lit.nen)
    /\ Contains(line, Lit.gatsu)
    /\ Contains(line, Lit.nichi)

\* One iteration of the loop of parse_flights_email at cursor k: the result
\* list after it (the cursor itself always advances by one).
EmailIteration(ls, k, fl) ==
    LET line == ls[k + 1]
        md == EmailHeader(line)
        route == RouteFields(IF k + 1 < Len(ls) THEN ls[k + 2] ELSE <<>>)
        seated == k + 2 < Len(ls) /\ StartsWith(ls[k + 3], Lit.zaseki)
        seat_class == IF seated THEN SeatClassIn(ls[k + 3]) ELSE None
        seat_no == IF seated THEN SeatNoIn(ls[k + 3]) ELSE None
    IN  IF /\ HasEmailMarkers(line)
           /\ md.ok
           /\ Truthy(route.dep_name) /\ Truthy(route.dep_time)
           /\ Truthy(route.arr_name) /\ Truthy(route.arr_time)
           /\ TimesValid(route.dep_time, route.arr_time)
        THEN Append(fl, Flight(md.year, md.month, md.day,
                               trim_field(IntToDigits(md.flight_no)),
                               trim_field(route.dep_name), route.dep_time,
                               trim_field(route.arr_name), route.arr_time,
                               TrimOrNone(seat_class), TrimOrNone(seat_no)))
        ELSE fl

RECURSIVE EmailRun(_, _, _)
EmailRun(ls, k, fl) ==
    IF k < Len(ls) THEN EmailRun(ls, k + 1, EmailIteration(ls, k, fl)) ELSE fl

parse_flights_email(t) == EmailRun(ScanLines(t), 0, <<>>)

---------------------------------------------------------------------------
(* Homepage-format parser.                                                 *)

\* re.match(r'(\d{4})nen(\d{1,2})gatsu(\d{1,2})nichi', line)
IsDateHeader(line) == DateAt(line, 1).ok

\* re.match(r'^\d{1,2}:\d{2}', line)
IsTimeLeading(line) == TimeTokenLen(line, 1) > 0

\* The group (.+) of a pattern \s*(.+) applied to the non-empty rest of a
\* line: the rest without its leading white space, or its last character
\* when it is all white space.
AfterSpaces(rest) ==
    IF RunLen(rest, 1, SpaceChars) < Len(rest)
    THEN SliceFrom(rest, RunLen(rest, 1, SpaceChars))
    ELSE SliceFrom(rest, Len(rest) - 1)

\* re.match(r'^(\d{1,2}:\d{2})(.+)', line): the time and the stripped label.
DepMatch(line) ==
    LET n == TimeTokenLen(line, 1)
    IN  IF n > 0 /\ Len(line) > n
        THEN [ok |-> TRUE, time |-> SliceTo(line, n),
              name |-> Strip(SliceFrom(line, n))]
        ELSE NoMatch

\* re.match(r'^(\d{1,2}:\d{2})\s*(.+)', line): the time and the stripped label.
ArrMatch(line) ==
    LET n == TimeTokenLen(line, 1)
    IN  IF n > 0 /\ Len(line) > n
        THEN [ok |-> TRUE, time |-> SliceTo(line, n),
              name |-> Strip(AfterSpaces(SliceFrom(line, n)))]
        ELSE NoMatch

Colons == {Ch.fwColon, Ch.colon}

\* The stripped group 1 of re.search(r'kurasu[fw: :]\s*(.+)', line), or None.
ClassMatch(line) ==
    LET hits == {p \in 1..Len(line) :
                    /\ LitAt(line, p, Lit.kurasu)
                    /\ At(line, p + 3) \in Colons
                    /\ Len(line) > p + 3}
    IN  IF hits = {} THEN None
        ELSE Strip(AfterSpaces(SliceFrom(line, Least(hits) + 3)))

\* Group 1 of re.search(r'binmei[fw: :]\s*JAL(\d+)', line), or None.
FlightMatch(line) ==
    LET jal(p) == p + 3 + RunLen(line, p + 3, SpaceChars)
        hits == {p \in 1..Len(line) :
                    /\ LitAt(line, p, Lit.binmei)
                    /\ At(line, p + 2) \in Colons
                    /\ LitAt(line, jal(p), Lit.JAL)
                    /\ RunLen(line, jal(p) + 3, DigitChars) >= 1}
    IN  IF hits = {} THEN None
        ELSE SubSeq(line, jal(Least(hits)) + 3,
                    jal(Least(hits)) + 2
                        + RunLen(line, jal(Least(hits)) + 3, DigitChars))

\* The locals of a block when its date header has matched.
NewScan(date) ==
    [year |-> date.year, month |-> date.month, day |-> date.day,
     dep_time |-> None, dep_name |-> None, arr_time |-> None,
     arr_name |-> None, flight_no |-> None, seat_class |-> None,
     found_dep |-> FALSE]

\* Whether the inner loop claims the line as the departure.
ClaimsDeparture(sc, curr_line) ==
    ~sc.found_dep /\ IsTimeLeading(curr_line) /\ DepMatch(curr_line).ok

\* Whether the inner loop claims the line as the arrival.
ClaimsArrival(sc, curr_line) ==
    /\ sc.found_dep
    /\ ~Truthy(sc.arr_time)
    /\ IsTimeLeading(curr_line)
    /\ ArrMatch(curr_line).ok

\* The break test with the guard one line late: j > i + 2.
BreaksLate(k, jj, curr_line) == jj > k + 2 /\ IsDateHeader(curr_line)

\* The test that ends the inner loop at cursor jj of the block opened at k.
BreaksAt(k, jj, curr_line) == jj > k + 1 /\ IsDateHeader(curr_line)

\* The condition of the inner loop.
InWindow(ls, k, jj) == jj < Len(ls) /\ jj < k + LOOKAHEAD

\* The locals after the inner loop's body has run on curr_line.
ScanLine(sc, curr_line) ==
    IF ClaimsDeparture(sc, curr_line)
    THEN [sc EXCEPT !.dep_time = DepMatch(curr_line).time,
                    !.dep_name = DepMatch(curr_line).name,
                    !.found_dep = TRUE]
    ELSE LET a == IF ClaimsArrival(sc, curr_line)
                  THEN [sc EXCEPT !.arr_time = ArrMatch(curr_line).time,
                                  !.arr_name = ArrMatch(curr_line).name]
                  ELSE sc
             c == IF /\ \E col \in Colons :
                            Contains(curr_line, Lit.kurasu \o <<col>>)
                     /\ ClassMatch(curr_line) # None
                  THEN [a EXCEPT !.seat_class = ClassMatch(curr_line)]
                  ELSE a
         IN  IF /\ \E col \in Colons :
                        Contains(curr_line, Lit.binmei \o <<col>>)
                /\ FlightMatch(curr_line) # None
             THEN [c EXCEPT !.flight_no = FlightMatch(curr_line)]
             ELSE c

\* Whether the inner loop leaves by break after its body has run at jj.
ScanBreaks(sc, k, jj, curr_line) ==
    ~ClaimsDeparture(sc, curr_line) /\ BreaksAt(k, jj, curr_line)

\* The emission test of parse_flights_homepage.
Complete(sc) ==
    /\ Truthy(sc.dep_time) /\ Truthy(sc.dep_name)
    /\ Truthy(sc.arr_time) /\ Truthy(sc.arr_name)
    /\ Truthy(sc.flight_no)
    /\ TimesValid(sc.dep_time, sc.arr_time)

\* The record appended for a complete block.
HomepageFlight(sc) ==
    Flight(sc.year, sc.month, sc.day, trim_field(sc.flight_no),
           trim_field(sc.dep_name), sc.dep_time,
           trim_field(sc.arr_name), sc.arr_time,
           TrimOrNone(sc.seat_class), None)

\* The cursor's move without the advance after a block that is not emitted.
CursorStays(sc, k, jj) == IF Complete(sc) THEN jj - 1 ELSE k

\* The outer cursor after the block opened at k has been scanned up to jj.
CursorAfter(sc, k, jj) == IF Complete(sc) THEN jj - 1 ELSE k + 1

\* The inner loop from cursor jj: the locals and the cursor when it ends.
RECURSIVE InnerRun(_, _, _, _)
InnerRun(ls, k, jj, sc) ==
    IF ~InWindow(ls, k, jj) THEN [scan |-> sc, j |-> jj]
    ELSE IF ScanBreaks(sc, k, jj, ls[jj + 1])
    THEN [scan |-> ScanLine(sc, ls[jj + 1]), j |-> jj]
    ELSE InnerRun(ls, k, jj + 1, ScanLine(sc, ls[jj + 1]))

RECURSIVE HomepageRun(_, _, _)
HomepageRun(ls, k, fl) ==
    IF k >= Len(ls) THEN fl
    ELSE IF ~IsDateHeader(ls[k + 1]) THEN HomepageRun(ls, k + 1, fl)
    ELSE LET r == InnerRun(ls, k, k + 1, NewScan(DateAt(ls[k + 1], 1)))
         IN  HomepageRun(ls, CursorAfter(r.scan, k, r.j),
                         IF Complete(r.scan)
                         THEN Append(fl, HomepageFlight(r.scan)) ELSE fl)

parse_flights_homepage(t) == HomepageRun(ScanLines(t), 0, <<>>)

---------------------------------------------------------------------------
(* Dispatcher.                                                             *)

\* A dispatcher that runs the homepage parser whatever the email parser found.
FallsBackAlways(email_flights) == TRUE

\* The test "not flights" after the email parser has returned.
FallsBack(email_flights) == email_flights = <<>>

parse_flights(r) ==
    LET t == sanitize_user_text(r)
        email == parse_flights_email(t)
    IN  IF FallsBack(email) THEN parse_flights_homepage(t) ELSE email

---------------------------------------------------------------------------
(* Input texts: itinerary fragments, joined by newlines.                   *)

\* The number of fragments pasted into one input text.
MaxFragments == 2

\* A line of notes with a control character, a vertical tab and a trailing
\* ideographic space: \x01memo\x0b
MemoLine == <<1, 109, 101, 109, 111, 11, 12288>>

\* A label of MAX_FIELD_LEN + 10 characters c with semicolons, backslashes
\* and commas among them.
LongLabel(c) ==
    [k \in 1..(MAX_FIELD_LEN + 10) |->
        IF k % 7 = 0 THEN Ch.semicolon
        ELSE IF k % 11 = 0 THEN Ch.backslash
        ELSE IF k % 13 = 0 THEN Ch.comma
        ELSE c]

Fragment ==
  [ \* 2025年9月20日（土）　JAL511便 \n
    \* 東京(羽田)10:30発        札幌(新千歳)12:05着 \n
    \* 座席：クラス J 座席番号：15H
    EmailSample |-> <<50,48,50,53,24180,57,26376,50,48,26085,65288,22303,65289,12288,74,65,76,53,49,49,20415,10,26481,20140,40,32701,30000,41,49,48,58,51,48,30330,32,32,32,32,32,32,32,32,26413,24140,40,26032,21315,27507,41,49,50,58,48,53,30528,10,24231,24109,65306,12463,12521,12473,32,74,32,24231,24109,30058,21495,65306,49,53,72>>,
    \* 2025年9月21日 JAL42便 \r\n 羽田 9:05発\t那覇 11:40着
    EmailEarly |-> <<50,48,50,53,24180,57,26376,50,49,26085,32,74,65,76,52,50,20415,13,10,32701,30000,32,57,58,48,53,30330,9,37027,35207,32,49,49,58,52,48,30528>>,
    \* 2025年13月1日 JAL7便 \n 福岡10:00発  伊丹11:00着
    EmailMonth13 |-> <<50,48,50,53,24180,49,51,26376,49,26085,32,74,65,76,55,20415,10,31119,23713,49,48,58,48,48,30330,32,32,20234,20025,49,49,58,48,48,30528>>,
    \* 2025年9月22日 JAL8便 \n 福岡25:00発  伊丹11:00着
    EmailBadTime |-> <<50,48,50,53,24180,57,26376,50,50,26085,32,74,65,76,56,20415,10,31119,23713,50,53,58,48,48,30330,32,32,20234,20025,49,49,58,48,48,30528>>,
    \* 2026年2月10日（火） \r\n 11:55東京 (羽田) \r\n 14:50 沖縄 (那覇) \r\n
    \* クラス： クラス J \r\n 便名：JAL915
    HomepageSample |-> <<50,48,50,54,24180,50,26376,49,48,26085,65288,28779,65289,13,10,49,49,58,53,53,26481,20140,32,40,32701,30000,41,13,10,49,52,58,53,48,32,27798,32260,32,40,37027,35207,41,13,10,12463,12521,12473,65306,32,12463,12521,12473,32,74,13,10,20415,21517,65306,74,65,76,57,49,53>>,
    \* 2026年2月11日（水）
    HeaderOnly |-> <<50,48,50,54,24180,50,26376,49,49,26085,65288,27700,65289>>,
    \* 2026年2月12日 \n 11:00
    HeaderBareTime |-> <<50,48,50,54,24180,50,26376,49,50,26085,10,49,49,58,48,48>>,
    \* 12:10伊丹 \n 13:20 福岡 \n 便名:JAL2081
    Body |-> <<49,50,58,49,48,20234,20025,10,49,51,58,50,48,32,31119,23713,10,20415,21517,58,74,65,76,50,48,56,49>>,
    \* 2026年3月1日 \n 24:00 那覇 \n 10:00 羽田 \n 便名：JAL3
    HomepageBadTime |-> <<50,48,50,54,24180,51,26376,49,26085,10,50,52,58,48,48,32,37027,35207,10,49,48,58,48,48,32,32701,30000,10,20415,21517,65306,74,65,76,51>>,
    \* 2026年4月1日 \n 8:00 中部 \n and memo lines up to the last but one
    \* line of the lookahead window
    HeaderLongGap |->
        Join(<< <<50,48,50,54,24180,52,26376,49,26085>>,
                <<56,58,48,48,32,20013,37096>> >>
                 \o [k \in 1..(LOOKAHEAD - 3) |-> MemoLine], <<Ch.nl>>),
    \* 2025/9/23 JAL9, a route line "<label>10:00" + hatsu + two spaces +
    \* "<label>12:00" + chaku whose labels are longer than MAX_FIELD_LEN
    EmailLong |->
        <<50,48,50,53,24180,57,26376,50,51,26085,32,74,65,76,57,20415,10>>
            \o LongLabel(75) \o <<49,48,58,48,48,30330,32,32>>
            \o LongLabel(90) \o <<49,50,58,48,48,30528>>,
    \* 9:30 新千歳 便名：JAL5
    ArrivalWithNo |-> <<57,58,51,48,32,26032,21315,27507,32,20415,21517,65306,74,65,76,53>>,
    \* 旅程1 \n \n 　\t
    Noise |-> <<26053,31243,49,10,10,12288,9>> ]

FragmentNames == DOMAIN Fragment

\* The texts of up to MaxFragments fragments.
Inputs ==
    UNION { { Join([k \in 1..n |-> Fragment[c[k]]], <<Ch.nl>>) :
                c \in [1..n -> FragmentNames] } : n \in 0..MaxFragments }

---------------------------------------------------------------------------
(* parse_flights followed by flights_to_ics, step by step.                 *)

NoScan == NewScan([year |-> 0, month |-> 0, day |-> 0])
NoDoc == [kind |-> "none"]

Init ==
    /\ raw \in Inputs
    /\ text = <<>>
    /\ pc = "start"
    /\ lines = <<>>
    /\ i = 0
    /\ j = 0
    /\ scan = NoScan
    /\ flights = <<>>
    /\ doc = NoDoc
    /\ value = <<>>
    /\ accepted = FALSE

\* parse_flights up to the first test of the email parser's loop.
ParseStart ==
    /\ pc = "start"
    /\ text' = sanitize_user_text(raw)
    /\ lines' = ScanLines(text')
    /\ i' = 0
    /\ flights' = <<>>
    /\ pc' = "email"
    /\ UNCHANGED <<raw, j, scan, doc, value, accepted>>

\* One iteration of the email parser's loop.
EmailStep ==
    /\ pc = "email"
    /\ i < Len(lines)
    /\ flights' = EmailIteration(lines, i, flights)
    /\ i' = i + 1
    /\ UNCHANGED <<raw, text, pc, lines, j, scan, doc, value, accepted>>

\* The email parser returns; parse_flights returns its records or starts
\* the homepage parser.
EmailReturn ==
    /\ pc = "email"
    /\ i >= Len(lines)
    /\ IF FallsBack(flights)
       THEN /\ pc' = "homepage"
            /\ lines' = ScanLines(text)
            /\ i' = 0
            /\ flights' = <<>>
       ELSE /\ pc' = "parsed"
            /\ UNCHANGED <<lines, i, flights>>
    /\ UNCHANGED <<raw, text, j, scan, doc, value, accepted>>

\* An outer iteration of the homepage parser on a line that is no header.
HomepageSkip ==
    /\ pc = "homepage"
    /\ i < Len(lines)
    /\ ~IsDateHeader(lines[i + 1])
    /\ i' = i + 1
    /\ UNCHANGED <<raw, text, pc, lines, j, scan, flights, doc, value, accepted>>

\* An outer iteration on a date header, up to the first test of the inner
\* loop.
HomepageOpen ==
    /\ pc = "homepage"
    /\ i < Len(lines)
    /\ IsDateHeader(lines[i + 1])
    /\ scan' = NewScan(DateAt(lines[i + 1], 1))
    /\ j' = i + 1
    /\ pc' = "scan"
    /\ UNCHANGED <<raw, text, lines, i, flights, doc, value, accepted>>

\* One iteration of the inner loop.
ScanStep ==
    /\ pc = "scan"
    /\ InWindow(lines, i, j)
    /\ scan' = ScanLine(scan, lines[j + 1])
    /\ IF ScanBreaks(scan, i, j, lines[j + 1])
       THEN pc' = "emit" /\ j' = j
       ELSE pc' = "scan" /\ j' = j + 1
    /\ UNCHANGED <<raw, text, lines, i, flights, doc, value, accepted>>

\* Whether the inner loop has ended.
ScanOver == pc = "emit" \/ (pc = "scan" /\ ~InWindow(lines, i, j))

\* The end of the outer iteration: emission or not, and the cursor's move.
BlockEnd ==
    /\ ScanOver
    /\ flights' = IF Complete(scan)
                  THEN Append(flights, HomepageFlight(scan)) ELSE flights
    /\ i' = CursorAfter(scan, i, j)
    /\ pc' = "homepage"
    /\ UNCHANGED <<raw, text, lines, j, scan, doc, value, accepted>>

\* The homepage parser returns, and parse_flights with it.
HomepageReturn ==
    /\ pc = "homepage"
    /\ i >= Len(lines)
    /\ pc' = "parsed"
    /\ UNCHANGED <<raw, text, lines, i, j, scan, flights, doc, value, accepted>>

\* flights_to_ics on the records parse_flights returned.
Serialize ==
    /\ pc = "parsed"
    /\ doc' = flights_to_ics(flights)
    /\ pc' = IF doc'.kind = "VCALENDAR" THEN "done" ELSE "raised"
    /\ UNCHANGED <<raw, text, lines, i, j, scan, flights, value, accepted>>

Next ==
    \/ ParseStart
    \/ EmailStep
    \/ EmailReturn
    \/ HomepageSkip
    \/ HomepageOpen
    \/ ScanStep
    \/ BlockEnd
    \/ HomepageReturn
    \/ Serialize

Spec == Init /\ [][Next]_vars

\* Whether parse_flights and flights_to_ics have returned or raised.
Halted == pc \in {"done", "raised"}

\* The interpreter runs the program to its end: weak fairness of Next,
\* WF_vars(Next), which is []<>~ENABLED <<Next>>_vars \/ []<><<Next>>_vars,
\* with ENABLED <<Next>>_vars written as what it amounts to here: a step is
\* possible exactly until the program has halted.
FairSpec == Spec /\ ([]<>Halted \/ []<><<Next>>_vars)

---------------------------------------------------------------------------
(* A call of is_valid_time on a string of its own.                         *)

\* The longest argument tried.
MaxTimeLen == 5

\* 0 2 4 6, the colon, a newline and a letter.
TimeAlphabet == {48, 50, 52, 54, Ch.colon, Ch.nl, 97}

TimeInputs ==
    {None} \cup UNION { [1..n -> TimeAlphabet] : n \in 0..MaxTimeLen }

InitTime ==
    /\ value \in TimeInputs
    /\ pc = "call"
    /\ accepted = FALSE
    /\ raw = <<>>
    /\ text = <<>>
    /\ lines = <<>>
    /\ i = 0
    /\ j = 0
    /\ scan = NoScan
    /\ flights = <<>>
    /\ doc = NoDoc

CheckTime ==
    /\ pc = "call"
    /\ accepted' = is_valid_time(value)
    /\ pc' = "return"
    /\ UNCHANGED <<raw, text, lines, i, j, scan, flights, doc, value>>

NextTime == CheckTime

SpecTime == InitTime /\ [][NextTime]_vars

---------------------------------------------------------------------------
(* parse_flights on texts around the sanitizer's caps.                     *)

\* Lines the long texts repeat: 19 and 9 digits, two letters, each with and
\* without a carriage return; a line with a control character and an
\* ideographic space; an empty line; carriage returns before a letter.
UnitLines ==
    { [k \in 1..19 |-> Ch.zero + (k % 10)],
      [k \in 1..19 |-> Ch.zero + (k % 10)] \o <<Ch.cr>>,
      [k \in 1..9 |-> Ch.zero + k],
      [k \in 1..9 |-> Ch.zero + k] \o <<Ch.cr>>,
      <<97, 98>>,
      <<97, 98, Ch.cr>>,
      <<1, 97, Ch.ideographicSpace, 98>>,
      <<>>,
      [k \in 1..9 |-> Ch.cr] \o <<120>> }

\* How many times a line is repeated: around MAX_INPUT_CHARS characters and
\* around MAX_LINES lines.
Repeats == {0, 1, 2, 952, 953, 1000, 1818, 1999, 2000, 2001, 2400}

LongInputs ==
    { Join([k \in 1..n |-> u], <<Ch.nl>>) : u \in UnitLines, n \in Repeats }

InitSanitize ==
    /\ raw \in LongInputs
    /\ text = <<>>
    /\ pc = "start"
    /\ lines = <<>>
    /\ i = 0
    /\ j = 0
    /\ scan = NoScan
    /\ flights = <<>>
    /\ doc = NoDoc
    /\ value = <<>>
    /\ accepted = FALSE

NextSanitize == ParseStart

SpecSanitize == InitSanitize /\ [][NextSanitize]_vars

---------------------------------------------------------------------------
(* What the properties below refer to.                                     *)

\* A time of day as the specification writes it: one or two digits, a colon
\* and two digits and nothing else, the hour up to 23, the minute up to 59.
WellFormedTime(v) ==
    /\ v # None
    /\ Len(v) \in {4, 5}
    /\ v[Len(v) - 2] = Ch.colon
    /\ \A p \in (1..Len(v)) \ {Len(v) - 2} : v[p] \in DigitChars
    /\ DigitsToInt(SubSeq(v, 1, Len(v) - 3)) <= 23
    /\ DigitsToInt(SubSeq(v, Len(v) - 1, Len(v))) <= 59

\* The minutes since midnight a well-formed time names.
ClockMinutes(v) ==
    60 * DigitsToInt(SubSeq(v, 1, Len(v) - 3))
        + DigitsToInt(SubSeq(v, Len(v) - 1, Len(v)))

\* Whether the record's year, month and day name a day of the calendar.
OnCalendar(f) ==
    /\ f.year \in 1..9999
    /\ f.month \in 1..12
    /\ f.day \in 1..DaysInMonth(f.year, f.month)

\* The record's date at the clock time v.
DateAtClock(f, v) ==
    [kind |-> "datetime", year |-> f.year, month |-> f.month, day |-> f.day,
     hour |-> ClockMinutes(v) \div 60, minute |-> ClockMinutes(v) % 60]

\* The arrival instant the specification describes: a day later when the
\* arrival clock time is strictly earlier than the departure clock time.
OvernightArrival(f) ==
    IF ClockMinutes(f.arr_time) < ClockMinutes(f.dep_time)
    THEN PlusOneDay(DateAtClock(f, f.arr_time))
    ELSE DateAtClock(f, f.arr_time)

\* The number of backslashes of e right before position p.
BackslashesBefore(e, p) ==
    IF p = 1 \/ e[p - 1] # Ch.backslash THEN 0
    ELSE LET others == SelectSeq([q \in 1..(p - 1) |-> q],
                                 LAMBDA q : e[q] # Ch.backslash)
         IN  p - 1 - (IF others = <<>> THEN 0 ELSE others[Len(others)])

\* The text an escaped calendar text stands for, read from left to right:
\* backslash-n is a newline, a backslash before any other character is that
\* character.
Unescape(e) ==
    LET escaped(p) == BackslashesBefore(e, p) % 2 = 1
        keep == SelectSeq([p \in 1..Len(e) |-> p],
                          LAMBDA p : escaped(p) \/ e[p] # Ch.backslash)
    IN  [k \in 1..Len(keep) |->
            IF escaped(keep[k]) /\ e[keep[k]] = Ch.n THEN Ch.nl
            ELSE e[keep[k]]]

\* The sanitizer as the specification orders it: control characters, the
\* ideographic space and carriage returns first, then the two caps.
OrderedSanitize(r) ==
    LET clean == SelectSeq([k \in 1..Len(r) |->
                               IF r[k] = Ch.ideographicSpace THEN Ch.space
                               ELSE r[k]],
                           LAMBDA c : c \notin ControlChars /\ c # Ch.cr)
        capped == SubSeq(clean, 1, IF Len(clean) > MAX_INPUT_CHARS
                                   THEN MAX_INPUT_CHARS ELSE Len(clean))
        ls == Split(capped, Ch.nl)
    IN  Join(SubSeq(ls, 1, IF Len(ls) > MAX_LINES THEN MAX_LINES ELSE Len(ls)),
             <<Ch.nl>>)

\* The non-blank lines of a text, stripped.
StrippedLines(t) ==
    LET ls == Split(t, Ch.nl)
    IN  SelectSeq([k \in 1..Len(ls) |-> Strip(ls[k])], LAMBDA l : l # <<>>)

\* The lines of the open block the inner loop has read.
LinesRead == IF pc = "emit" THEN (i + 1)..j ELSE (i + 1)..(j - 1)

\* The lines read so far that begin with a time token.
TimeLeadingRead == {k \in LinesRead : IsTimeLeading(lines[k + 1])}

---------------------------------------------------------------------------
(* Properties.                                                             *)

\* C1: parsing any text and serialising the records returned raises no
\* exception: the run ends with a calendar document.
C1_NoException == pc \in {"done", "raised"} => doc.kind = "VCALENDAR"

\* C2: for a returned record on a calendar day whose two times are of the
\* form H:MM or HH:MM, the departure instant is the record's date at the
\* departure time and the arrival instant is the record's date at the
\* arrival time, a day later exactly when the arrival time is the earlier.
C2_Instants ==
    pc = "parsed" =>
        \A k \in 1..Len(flights) :
            (/\ OnCalendar(flights[k])
             /\ WellFormedTime(flights[k].dep_time)
             /\ WellFormedTime(flights[k].arr_time))
            => /\ dep_dt(flights[k])
                    = DateAtClock(flights[k], flights[k].dep_time)
               /\ arr_dt(flights[k]) = OvernightArrival(flights[k])

\* C3: is_valid_time accepts a string exactly when it is one or two digits,
\* a colon and two digits with nothing after them, the hour at most 23 and
\* the minute at most 59.
C3_AcceptsExactly == pc = "return" => (accepted <=> WellFormedTime(value))

\* C4: unescaping the summary, location and description of every
\* event gives back the text handed to escape_ics_text, whatever its
\* length.
C4_RoundTripOriginal ==
    pc = "done" =>
        \A k \in 1..Len(flights) :
            /\ Unescape(doc.events[k].summary) = SummaryText(flights[k])
            /\ Unescape(doc.events[k].location) = LocationText(flights[k])
            /\ Unescape(doc.events[k].description)
                   = DescriptionText(flights[k])

\* C5: the lines the parsers scan are the non-blank lines of the raw text
\* sanitized in the stated order, the character cap measured after the
\* carriage returns are gone.
C5_ScansOrderedSanitize ==
    pc = "email" => lines = StrippedLines(OrderedSanitize(raw))

\* C6: every record in the result has two times that pass is_valid_time and
\* a non-empty departure label, arrival label and flight number; a block
\* with a field missing or a time invalid adds no record and the cursor
\* moves on by one line.
C6_RecordsValid ==
    /\ [](\A k \in 1..Len(flights) :
            /\ is_valid_time(flights[k].dep_time)
            /\ is_valid_time(flights[k].arr_time)
            /\ flights[k].dep_name # <<>>
            /\ flights[k].arr_name # <<>>
            /\ flights[k].flight_no # <<>>)
    /\ [][/\ (/\ pc = "email"
              /\ i < Len(lines)
              /\ LET r == RouteFields(IF i + 1 < Len(lines)
                                      THEN lines[i + 2] ELSE <<>>)
                 IN  ~(/\ Truthy(r.dep_name) /\ Truthy(r.arr_name)
                       /\ WellFormedTime(r.dep_time)
                       /\ WellFormedTime(r.arr_time)))
             => (flights' = flights /\ i' = i + 1)
          /\ (/\ ScanOver
              /\ ~(/\ Truthy(scan.dep_name) /\ Truthy(scan.arr_name)
                   /\ Truthy(scan.flight_no)
                   /\ WellFormedTime(scan.dep_time)
                   /\ WellFormedTime(scan.arr_time)))
             => (flights' = flights /\ i' = i + 1 /\ pc' = "homepage")]_vars

\* A block with the time 25:00 was passed over and the block after it gave
\* the one record of the result.
C6_InvalidBlockSkipped ==
    /\ pc = "parsed"
    /\ raw = Join(<<Fragment.EmailBadTime, Fragment.EmailSample>>, <<Ch.nl>>)
    /\ Len(flights) = 1
    /\ flights[1].dep_time = <<49, 48, 58, 51, 48>>

\* C7: parse_flights returns the email parser's records when there is at
\* least one, and the homepage parser's records (none, when it finds none)
\* otherwise; the two results are never merged.
C7_Dispatch ==
    pc = "parsed" =>
        LET email == parse_flights_email(text)
        IN  flights = IF email # <<>> THEN email
                      ELSE parse_flights_homepage(text)

\* Both parsers find records in the text and the email parser's are the
\* result.
C7_BothFormatsPresent ==
    /\ pc = "parsed"
    /\ parse_flights_email(text) # <<>>
    /\ parse_flights_homepage(text) # <<>>
    /\ flights = parse_flights_email(text)

\* The index of the first date header after the first line of the window of
\* the open block, or of the last line of the text when there is none.
FirstNestedHeader ==
    LET nested == {k \in (i + 2)..(Len(lines) - 1) : IsDateHeader(lines[k + 1])}
    IN  IF nested = {} THEN Len(lines) - 1 ELSE Least(nested)

\* C8, as amended: the scan of the block opened at line i stops at the
\* first date header after the first line of its window: no date header
\* lies between that first line and the inner cursor, and the fields the
\* scan ends with are those read from the lines up to that header alone.
C8_StopsAtNestedHeader ==
    pc \in {"scan", "emit"} =>
        /\ \A k \in (i + 2)..(j - 1) : ~IsDateHeader(lines[k + 1])
        /\ ScanOver =>
              scan = InnerRun(SubSeq(lines, 1, FirstNestedHeader + 1), i, i + 1,
                              NewScan(DateAt(lines[i + 1], 1))).scan

\* C8, as stated: the scan of the block opened at line i stops at a date
\* header anywhere in its window: no date header lies between line i and
\* the inner cursor.
C8_StopsAtAnyHeader ==
    pc \in {"scan", "emit"} =>
        \A k \in (i + 1)..(j - 1) : ~IsDateHeader(lines[k + 1])

\* The scan has stopped at a nested date header with lines of the next block
\* still unread, the departure of the open block already claimed.
C8_StoppedAtHeader ==
    /\ pc = "emit"
    /\ j > i + 1
    /\ IsDateHeader(lines[j + 1])
    /\ j + 1 < Len(lines)
    /\ scan.found_dep

\* C9: the departure of the open block is taken from the first line of the
\* window that begins with a time token, and from no later one: when that
\* line has no label, the block has no departure.
C9_FirstTimeLineIsDeparture ==
    (pc \in {"scan", "emit"} /\ TimeLeadingRead # {}) =>
        LET first == lines[Least(TimeLeadingRead) + 1]
            n == TimeTokenLen(first, 1)
        IN  IF Strip(SliceFrom(first, n)) = <<>>
            THEN ~Truthy(scan.dep_time) /\ ~Complete(scan)
            ELSE /\ scan.dep_time = SliceTo(first, n)
                 /\ scan.dep_name = Strip(SliceFrom(first, n))

\* The cursors' moves: a line that is no header moves the outer cursor by
\* one; a header opens a window at the next line; the inner cursor stays
\* within LOOKAHEAD lines of the header; the end of a block moves the outer
\* cursor to j - 1, beyond i, when a record was appended and to i + 1 when
\* none was.
CursorMoves ==
    /\ (pc = "homepage" /\ pc' = "homepage") => i' = i + 1
    /\ (pc = "homepage" /\ pc' = "scan") => (i' = i /\ j' = i + 1)
    /\ (pc = "scan" /\ pc' \in {"scan", "emit"})
           => (i' = i /\ j' \in {j, j + 1} /\ j' <= i + LOOKAHEAD)
    /\ (pc \in {"scan", "emit"} /\ pc' = "homepage")
           => IF flights' # flights
              THEN i' = j - 1 /\ i' > i
              ELSE i' = i + 1
    /\ pc' = "homepage" => i' <= Len(lines)

\* C10: the homepage parser ends on every text; its outer cursor only moves
\* forward, to j - 1 > i after an emission and to i + 1 otherwise, and a
\* block's scan reads lines among the LOOKAHEAD after its header only.
C10_Terminates ==
    /\ [][CursorMoves]_vars
    /\ [](pc \in {"scan", "emit"} => (i < j /\ j <= i + LOOKAHEAD))
    /\ <>Halted

\* A block whose arrival is on the last line of the window has been emitted
\* and the outer cursor is on that line.
C10_WindowExhausted ==
    /\ pc = "homepage"
    /\ Len(flights) = 1
    /\ j = LOOKAHEAD
    /\ i = LOOKAHEAD - 1

=============================================================================
